---- MODULE Spec2Model ----
(***************************************************************************)
(* A model of the trading-alert bot of src/bot.py: the market-hours gate,  *)
(* the Fibonacci levels, the analysis/decision rule of analyze_stock, the  *)
(* periodic stock_alert task and the manual plan command, both run by one  *)
(* cooperative event loop.                                                 *)
(*                                                                         *)
(* Numbers.  A Python float is Float(v), v an integer count of thousandths *)
(* (a price of 105.0 is Float(105000)), or NaN.  Every price and indicator *)
(* a fetched frame holds is of this form.  A product with a literal of the *)
(* source (price * 0.98, ...) and a Fibonacci level are floats the code    *)
(* computes: each is kept with its operands and its exact decimal value in *)
(* millionths.  Where the rounding of the binary double decides a result   *)
(* (a tie of the two-decimal format, a price at exactly 0.5% from a level) *)
(* the double is computed bit by bit from the operands.  Comparisons with  *)
(* NaN are false, as in Python.                                            *)
(*                                                                         *)
(* The libraries (yfinance, pandas, ta, discord, pytz) are not modelled    *)
(* bar by bar: a fetched frame is the record of what the code reads from   *)
(* it (number of rows, last values of the indicator series, the swing of   *)
(* the trailing window), constrained by the libraries' window rules.       *)
(***************************************************************************)
EXTENDS Integers, Sequences, FiniteSets, TLC

-----------------------------------------------------------------------------
(* Bounds of the model *)

\* largest swing (swing_high - swing_low) of a fetched frame, in whole units
MaxSwing == 3
\* moving averages (EMA, SMA) take the values 1..MaxInd, in whole units
MaxInd == 2

-----------------------------------------------------------------------------
(* Python values *)

None == [t |-> "None"]
NaN == [t |-> "nan"]
Float(v) == [t |-> "float", v |-> v]
Milli == 10 * 100

IsNum(x) == x.t = "float"
Gt(a, b) == IsNum(a) /\ IsNum(b) /\ a.v > b.v
Lt(a, b) == IsNum(a) /\ IsNum(b) /\ a.v < b.v
Ge(a, b) == IsNum(a) /\ IsNum(b) /\ a.v >= b.v
Le(a, b) == IsNum(a) /\ IsNum(b) /\ a.v <= b.v
Abs(n) == IF n < 0 THEN 0 - n ELSE n

\* x * (permille / 1000) for a float literal with at most three decimals:
\* the float product of the two doubles, kept with its operands; micro is
\* the product of the two decimals, in millionths
MulLit(x, permille) ==
    [t |-> "float", micro |-> x.v * permille, price |-> x.v, permille |-> permille]

-----------------------------------------------------------------------------------------------------------------------------------------------------
(* Binary floating point: a Python float is an IEEE-754 double.  The model  *)
(* needs the double itself where a result turns on its last bit: a value    *)
(* printed with two decimals that sits half way between two hundredths, a   *)
(* price at exactly 0.5% from a Fibonacci level.  A natural number is a     *)
(* sequence of bits, the most significant first; a double is m * 2^e with   *)
(* m of MantissaBits bits, or zero (m = <<>>).  The arithmetic is written   *)
(* as functions, which are applied to values.                               *)

MantissaBits == 53
Bits == Seq({0, 1})
Doubles == [m : Bits, e : Int]
AddState == [bits : Bits, carry : {0, 1}]
SubState == [bits : Bits, borrow : {0, 1}]
DivState == [q : Bits, rem : Bits]
SmallDivState == [q : Bits, rem : Nat]

BitsOf[n \in Nat] == IF n = 0 THEN <<>> ELSE BitsOf[n \div 2] \o <<n % 2>>

Strip[b \in Bits] ==
    IF \A i \in DOMAIN b : b[i] = 0 THEN <<>>
    ELSE SubSeq(b, CHOOSE i \in DOMAIN b : b[i] = 1 /\ \A j \in 1..(i - 1) : b[j] = 0,
                Len(b))

PadLeft[b \in Bits, n \in Nat] == [i \in 1..(n - Len(b)) |-> 0] \o b
ShiftLeft[b \in Bits, k \in Nat] == b \o [i \in 1..k |-> 0]

\* x < y, for x and y without leading zeros
LessStripped[x \in Bits, y \in Bits] ==
    IF Len(x) # Len(y) THEN Len(x) < Len(y)
    ELSE \E i \in DOMAIN x : x[i] < y[i] /\ \A j \in 1..(i - 1) : x[j] = y[j]

LessBits[a \in Bits, b \in Bits] == LessStripped[Strip[a], Strip[b]]

\* The sums, differences, products and quotients below run over a range
\* lo..hi of bits by halves, the result of one half handed to the other, so
\* that the depth of the recursion is logarithmic in the length.

\* bits lo..hi of x + y, for x and y of one length, from the right: st holds
\* the bits to the right of hi and the carry into hi
AddRange[x \in Bits, y \in Bits, lo \in Nat, hi \in Nat, st \in AddState] ==
    IF lo = hi
    THEN [bits |-> <<(x[lo] + y[lo] + st.carry) % 2>> \o st.bits,
          carry |-> (x[lo] + y[lo] + st.carry) \div 2]
    ELSE AddRange[x, y, lo, (lo + hi) \div 2, AddRange[x, y, (lo + hi) \div 2 + 1, hi, st]]

AddBits[a \in Bits, b \in Bits] ==
    LET n == 1 + (IF Len(a) > Len(b) THEN Len(a) ELSE Len(b))
    IN Strip[AddRange[PadLeft[a, n], PadLeft[b, n], 1, n, [bits |-> <<>>, carry |-> 0]].bits]

\* bits lo..hi of x - y, for x >= y of one length, from the right: st holds
\* the bits to the right of hi and the borrow from hi
SubRange[x \in Bits, y \in Bits, lo \in Nat, hi \in Nat, st \in SubState] ==
    IF lo = hi
    THEN [bits |-> <<(2 + x[lo] - y[lo] - st.borrow) % 2>> \o st.bits,
          borrow |-> IF x[lo] - y[lo] - st.borrow < 0 THEN 1 ELSE 0]
    ELSE SubRange[x, y, lo, (lo + hi) \div 2, SubRange[x, y, (lo + hi) \div 2 + 1, hi, st]]

\* a - b, for a >= b
SubBits[a \in Bits, b \in Bits] ==
    LET n == IF Len(a) > Len(b) THEN Len(a) ELSE Len(b)
    IN IF n = 0 THEN <<>>
       ELSE Strip[SubRange[PadLeft[a, n], PadLeft[b, n], 1, n,
                           [bits |-> <<>>, borrow |-> 0]].bits]

\* acc * 2^(hi - lo + 1) + a * (the number written by bits lo..hi of b)
MulRange[a \in Bits, b \in Bits, lo \in Nat, hi \in Nat, acc \in Bits] ==
    IF lo = hi
    THEN (IF b[lo] = 1 THEN AddBits[ShiftLeft[acc, 1], a] ELSE ShiftLeft[acc, 1])
    ELSE MulRange[a, b, (lo + hi) \div 2 + 1, hi, MulRange[a, b, lo, (lo + hi) \div 2, acc]]

MulBits[a \in Bits, b \in Bits] ==
    IF Len(b) = 0 THEN <<>> ELSE MulRange[a, b, 1, Len(b), <<>>]

\* one step of the long division by d > 0: the next bit of the dividend
\* joins the remainder st.rem < d, the quotient st.q gains a bit
DivStep[bit \in {0, 1}, d \in Bits, st \in DivState] ==
    IF LessBits[st.rem \o <<bit>>, d]
    THEN [q |-> st.q \o <<0>>, rem |-> Strip[st.rem \o <<bit>>]]
    ELSE [q |-> st.q \o <<1>>, rem |-> SubBits[st.rem \o <<bit>>, d]]

\* the steps over bits lo..hi of n
DivRange[n \in Bits, d \in Bits, lo \in Nat, hi \in Nat, st \in DivState] ==
    IF lo = hi THEN DivStep[n[lo], d, st]
    ELSE DivRange[n, d, (lo + hi) \div 2 + 1, hi, DivRange[n, d, lo, (lo + hi) \div 2, st]]

\* quotient and remainder of n by d, for d > 0
DivBits[n \in Bits, d \in Bits] ==
    IF Len(n) = 0 THEN [q |-> <<>>, rem |-> <<>>]
    ELSE DivRange[n, d, 1, Len(n), [q |-> <<>>, rem |-> <<>>]]

\* the double nearest to (b + f) * 2^e, for b without leading zeros and
\* 0 <= f < 1, where sticky says whether f > 0: round to nearest, ties to
\* the even mantissa
RoundStripped[b \in Bits, sticky \in BOOLEAN, e \in Int] ==
    IF Len(b) = 0 THEN [m |-> <<>>, e |-> 0]
    ELSE IF Len(b) <= MantissaBits
    THEN [m |-> ShiftLeft[b, MantissaBits - Len(b)], e |-> e - (MantissaBits - Len(b))]
    ELSE LET top == SubSeq(b, 1, MantissaBits)
             more == sticky \/ \E i \in (MantissaBits + 2)..Len(b) : b[i] = 1
             up == b[MantissaBits + 1] = 1 /\ (more \/ b[MantissaBits] = 1)
             inc == AddBits[top, <<1>>]
             e2 == e + Len(b) - MantissaBits
         IN IF ~up THEN [m |-> top, e |-> e2]
            ELSE IF Len(inc) > MantissaBits
            THEN [m |-> SubSeq(inc, 1, MantissaBits), e |-> e2 + 1]
            ELSE [m |-> inc, e |-> e2]

RoundBits[n \in Bits, sticky \in BOOLEAN, e \in Int] == RoundStripped[Strip[n], sticky, e]
RoundQuotient[d \in DivState, e \in Int] == RoundBits[d.q, d.rem # <<>>, e]

\* the long division of n by a small d > 0, over bits lo..hi: st.q the
\* quotient so far, st.rem < d the remainder so far
DivSmallRange[n \in Bits, d \in Nat, lo \in Nat, hi \in Nat, st \in SmallDivState] ==
    IF lo = hi
    THEN [q |-> st.q \o <<(2 * st.rem + n[lo]) \div d>>, rem |-> (2 * st.rem + n[lo]) % d]
    ELSE DivSmallRange[n, d, (lo + hi) \div 2 + 1, hi,
                       DivSmallRange[n, d, lo, (lo + hi) \div 2, st]]

RoundRatio[d \in SmallDivState, e \in Int] == RoundBits[d.q, d.rem # 0, e]

\* the double a literal or a quote of v thousandths is read as: v * 2^70
\* over 1000, rounded
DoubleOfMilli[v \in Nat] ==
    RoundRatio[DivSmallRange[ShiftLeft[BitsOf[v], 70], Milli, 1, Len(BitsOf[v]) + 70,
                             [q |-> <<>>, rem |-> 0]],
               0 - 70]

DLess[x \in Doubles, y \in Doubles] ==
    LET e == IF x.e < y.e THEN x.e ELSE y.e
    IN LessBits[ShiftLeft[x.m, x.e - e], ShiftLeft[y.m, y.e - e]]

\* x - y, for x >= y >= 0
DSub[x \in Doubles, y \in Doubles] ==
    LET e == IF x.e < y.e THEN x.e ELSE y.e
    IN RoundBits[SubBits[ShiftLeft[x.m, x.e - e], ShiftLeft[y.m, y.e - e]], FALSE, e]

DMul[x \in Doubles, y \in Doubles] == RoundBits[MulBits[x.m, y.m], FALSE, x.e + y.e]

\* the position of the last bit set, for b # 0: b is the bits up to it times
\* 2^(Len(b) - LastOne[b])
LastOne[b \in Bits] == CHOOSE i \in DOMAIN b : b[i] = 1 /\ \A j \in (i + 1)..Len(b) : b[j] = 0

\* x / y, for y > 0: the mantissa of x, 60 bits added, over the odd part of
\* the mantissa of y
DDiv[x \in Doubles, y \in Doubles] ==
    RoundQuotient[DivBits[ShiftLeft[x.m, 60], SubSeq(y.m, 1, LastOne[y.m])],
                  x.e - 60 - y.e - (Len(y.m) - LastOne[y.m])]

\* whether the double d is rounded up when printed with two decimals, for d
\* the double computed for n / scale and n / scale half way between two
\* hundredths: d lies below or above the half and decides; when it is the
\* half exactly, the tie goes to the even hundredth
TieUp[n \in Nat, scale \in Nat, d \in Doubles] ==
    IF LessBits[MulBits[d.m, BitsOf[scale]], ShiftLeft[BitsOf[n], 0 - d.e]] THEN FALSE
    ELSE IF LessBits[ShiftLeft[BitsOf[n], 0 - d.e], MulBits[d.m, BitsOf[scale]]] THEN TRUE
    ELSE (n \div (scale \div 100)) % 2 = 1

\* the hundredths f"{v / 1000:.2f}" prints: the decimal expansion of the
\* double, rounded to nearest
Cents[v \in Nat] ==
    IF v % 10 < 5 THEN v \div 10
    ELSE IF v % 10 > 5 THEN v \div 10 + 1
    ELSE IF TieUp[v, Milli, DoubleOfMilli[v]] THEN v \div 10 + 1
    ELSE v \div 10

\* the hundredths f"{price * literal:.2f}" prints, for price = v / 1000 and
\* literal = permille / 1000: the float product is within a rounding error
\* of v * permille millionths, many orders below a millionth, so the exact
\* product decides unless it is half way between two hundredths, and there
\* the float product does
ProductCents[v \in Nat, permille \in Nat] ==
    IF (v * permille) % (10 * Milli) < 5 * Milli THEN (v * permille) \div (10 * Milli)
    ELSE IF (v * permille) % (10 * Milli) > 5 * Milli
    THEN (v * permille) \div (10 * Milli) + 1
    ELSE IF TieUp[v * permille, Milli * Milli,
                  DMul[DoubleOfMilli[v], DoubleOfMilli[permille]]]
    THEN (v * permille) \div (10 * Milli) + 1
    ELSE (v * permille) \div (10 * Milli)

\* f"{x:.2f}", of a float read from the frame or of a product
Fmt2(x) ==
    IF ~IsNum(x) THEN [t |-> "fixed2", text |-> "nan"]
    ELSE IF "micro" \in DOMAIN x
    THEN [t |-> "fixed2", neg |-> x.micro < 0,
          cents |-> ProductCents[Abs(x.price), x.permille]]
    ELSE [t |-> "fixed2", neg |-> x.v < 0, cents |-> Cents[Abs(x.v)]]

NoExc == "none"
Return(price, msg) == [exc |-> NoExc, price |-> price, msg |-> msg]
Raise(e) == [exc |-> e]

-----------------------------------------------------------------------------
(* Configuration *)

SymNS == <<"B", "H", "A", "R", "A", "T", "F", "O", "R", "G", ".", "N", "S">>
SymSOL == <<"S", "O", "L", "-", "U", "S", "D">>

STOCK_CHANNELS ==
    << [symbol |-> SymNS, channel_id |-> "1419206174439374929", timeframe |-> "1h"],
       [symbol |-> SymSOL, channel_id |-> "1419280867322499165", timeframe |-> "5m"] >>

-----------------------------------------------------------------------------
(* Market hours gate *)

DaySeconds == 24 * 3600
\* Asia/Kolkata is UTC+05:30 all year
IstOffset == 5 * 3600 + 30 * 60
\* datetime.strptime('HH:MM', '%H:%M').time(), as a second of the day
TimeOf(h, m) == h * 3600 + m * 60
\* now.weekday() >= 5
Saturday == 5

\* datetime.now(tz) for a zone at a fixed offset: utc = [weekday, sec]
NowIn(offset, utc) ==
    LET s == utc.sec + offset
    IN [weekday |-> (utc.weekday + s \div DaySeconds) % 7, sec |-> s % DaySeconds]

EndsWith(s, suffix) ==
    /\ Len(s) >= Len(suffix)
    /\ SubSeq(s, Len(s) - Len(suffix) + 1, Len(s)) = suffix

\* the gate with the weekend test off by one day
is_market_open_SaturdayOpen(symbol, utc) ==
    IF EndsWith(symbol, <<".", "N", "S">>)
    THEN LET now == NowIn(IstOffset, utc)
         IN IF now.weekday > Saturday THEN FALSE
            ELSE IF now.sec >= TimeOf(9, 15) /\ now.sec <= TimeOf(15, 30) THEN TRUE
            ELSE FALSE
    ELSE TRUE

is_market_open(symbol, utc) ==
    IF EndsWith(symbol, <<".", "N", "S">>)
    THEN LET now == NowIn(IstOffset, utc)
         IN IF now.weekday >= Saturday THEN FALSE
            ELSE IF now.sec >= TimeOf(9, 15) /\ now.sec <= TimeOf(15, 30) THEN TRUE
            ELSE FALSE
    ELSE TRUE

-----------------------------------------------------------------------------
(* Fibonacci levels *)

FibRatios ==
    << [name |-> "23.6%", permille |-> 236],
       [name |-> "38.2%", permille |-> 382],
       [name |-> "50%", permille |-> 500],
       [name |-> "61.8%", permille |-> 618],
       [name |-> "78.6%", permille |-> 786] >>

\* swing_high - (diff * ratio), diff = swing_high - swing_low: the level in
\* millionths (the operands are in thousandths), with the operands the float
\* was computed from, which decide its last bit
FibLevel(high, low, permille) ==
    [t |-> "float", micro |-> high * Milli - (high - low) * permille,
     high |-> high, low |-> low, permille |-> permille]

\* df.swing_high, df.swing_low: max(High), min(Low) over the trailing 25 rows.
\* swing_high == swing_low is false when either is NaN, and the levels are
\* then NaN.
get_fib_levels(df) ==
    IF df.nbars = 0 THEN None
    ELSE IF IsNum(df.swing_high) /\ IsNum(df.swing_low) /\ df.swing_high.v = df.swing_low.v
    THEN None
    ELSE [t |-> "dict",
          items |-> [i \in 1..Len(FibRatios) |->
                       [name |-> FibRatios[i].name,
                        price |-> IF IsNum(df.swing_high) /\ IsNum(df.swing_low)
                                  THEN FibLevel(df.swing_high.v, df.swing_low.v,
                                                FibRatios[i].permille)
                                  ELSE NaN]]]

-----------------------------------------------------------------------------
(* Analysis *)

\* window=9, window=21 of the EMAs; the defaults of ta's RSI and Bollinger
\* bands; the windows of the two rolling means
EmaFastWindow == 9
EmaSlowWindow == 21
RsiWindow == 14
BbWindow == 20
SmaFastWindow == 50
SmaSlowWindow == 200

\* rsi < 35, rsi > 65
RsiOversold == 35
RsiOverbought == 65
\* price * 0.98, price * 1.04, price * 1.02, price * 0.96, in thousandths
BuyStopPermille == 980
BuyTargetPermille == 1040
SellStopPermille == 1020
SellTargetPermille == 960
\* abs(price - level_price) / price < 0.005
FibTolerancePermille == 5

SignalHold == "HOLD / WAIT (no confluence yet)"
SignalBuy == "PRO-BUY Setup"
SignalSell == "PRO-SELL Setup"
TagGolden == "Golden Cross (Bullish)"
TagDeath == "Death Cross (Bearish)"
BuyTags == <<"RSI oversold", "Price at Lower BB", "EMA9 > EMA21">>
SellTags == <<"RSI overbought", "Price at Upper BB", "EMA9 < EMA21">>

\* f"Price at {level_name} Fib Level"
FibTag(name) ==
    CASE name = "23.6%" -> "Price at 23.6% Fib Level"
      [] name = "38.2%" -> "Price at 38.2% Fib Level"
      [] name = "50%" -> "Price at 50% Fib Level"
      [] name = "61.8%" -> "Price at 61.8% Fib Level"
      [] name = "78.6%" -> "Price at 78.6% Fib Level"

MsgFetchError(timeframe, e) ==
    [t |-> "str", text |-> "Error fetching data for {timeframe} timeframe: {e}",
     timeframe |-> timeframe, e |-> e]
MsgNoData == [t |-> "str", text |-> "No data available (market closed?)"]
MsgCloseEmpty(symbol) ==
    [t |-> "str", text |-> "Error: 'Close' price data for {symbol} is empty after cleaning.",
     symbol |-> symbol]
MsgNotEnough ==
    [t |-> "str", text |-> "Error: Not enough data points to calculate indicators."]
MsgNoSignal == [t |-> "str", text |-> "No strong signal"]
Dash == [t |-> "dash"]
MsgPlan(symbol, timeframe, price, ev) ==
    [t |-> "str", text |-> "{symbol} Trade Plan ({timeframe})",
     symbol |-> symbol, timeframe |-> timeframe,
     price |-> Fmt2(price),
     signal |-> ev.signal,
     entry |-> Fmt2(ev.entry),
     stop_loss |-> IF ev.stop_loss = None THEN Dash ELSE Fmt2(ev.stop_loss),
     take_profit |-> IF ev.take_profit = None THEN Dash ELSE Fmt2(ev.take_profit),
     confluence |-> ev.confluence]

\* df["X"] = <Series over RangeIndex(len(close_prices))>: pandas aligns the
\* series on the frame's index; a frame indexed otherwise gets NaN throughout
Column(df, last) == IF df.aligned THEN last ELSE NaN

\* the scalars read at the last row
Scalars(df) ==
    [price |-> df.price,
     rsi |-> Column(df, df.rsi),
     ema9 |-> Column(df, df.ema9),
     ema21 |-> Column(df, df.ema21),
     bb_high |-> df.bb_high,
     bb_low |-> df.bb_low,
     sma50 |-> df.sma50,
     sma200 |-> df.sma200,
     sma50_prev |-> df.sma50_prev,
     sma200_prev |-> df.sma200_prev]

\* the cross test with the previous bar compared loosely
CrossTags_LoosePrev(x) ==
    IF Gt(x.sma50, x.sma200) /\ Le(x.sma50_prev, x.sma200_prev) THEN <<TagGolden>>
    ELSE IF Lt(x.sma50, x.sma200) /\ Ge(x.sma50_prev, x.sma200_prev) THEN <<TagDeath>>
    ELSE <<>>

CrossTags(x) ==
    IF Gt(x.sma50, x.sma200) /\ Lt(x.sma50_prev, x.sma200_prev) THEN <<TagGolden>>
    ELSE IF Lt(x.sma50, x.sma200) /\ Gt(x.sma50_prev, x.sma200_prev) THEN <<TagDeath>>
    ELSE <<>>

\* swing_high - (diff * ratio), in doubles
LevelOf[high \in Doubles, low \in Doubles, ratio \in Doubles] ==
    DSub[high, DMul[DSub[high, low], ratio]]

\* abs(price - level_price) / price < 0.005, in doubles, for price > 0
NearOf[price \in Doubles, level \in Doubles] ==
    DLess[DDiv[IF DLess[price, level] THEN DSub[level, price] ELSE DSub[price, level],
               price],
          DoubleOfMilli[FibTolerancePermille]]

\* the test as the code computes it, for 0 <= swing_low <= swing_high
NearDouble[price \in Nat, high \in Nat, low \in Nat, permille \in Nat] ==
    NearOf[DoubleOfMilli[price],
           LevelOf[DoubleOfMilli[high], DoubleOfMilli[low], DoubleOfMilli[permille]]]

\* the division by a price of 0.0 raises ZeroDivisionError
NearRaises(price) == IsNum(price) /\ price.v = 0

\* abs(price - level_price) / price < 0.005, where it does not raise.  A
\* comparison with NaN is false; a negative price makes the quotient
\* negative.  For a positive price the test is decided by the exact values
\* unless the level lies at exactly 0.5% of the price: the rounding errors
\* of the doubles are many orders below the step between two distances in
\* millionths, and only at that distance do they decide.
Near(price, level_price) ==
    IF ~IsNum(price) \/ ~IsNum(level_price) THEN FALSE
    ELSE IF price.v <= 0 THEN price.v < 0
    ELSE LET dist == Abs(price.v * Milli - level_price.micro)
             tol == FibTolerancePermille * price.v
         IN IF dist # tol THEN dist < tol
            ELSE NearDouble[price.v, level_price.high, level_price.low,
                            level_price.permille]

FibTags(price, fib_levels) ==
    IF fib_levels = None THEN <<>>
    ELSE LET hits == SelectSeq(fib_levels.items, LAMBDA it : Near(price, it.price))
         IN [i \in 1..Len(hits) |-> FibTag(hits[i].name)]

\* the setups with the RSI thresholds included
Setup_RsiInclusive(x) ==
    IF Gt(x.ema9, x.ema21) /\ Le(x.rsi, Float(RsiOversold * Milli)) /\ Le(x.price, x.bb_low)
    THEN [signal |-> SignalBuy,
          stop_loss |-> MulLit(x.price, BuyStopPermille),
          take_profit |-> MulLit(x.price, BuyTargetPermille),
          tags |-> BuyTags]
    ELSE IF Lt(x.ema9, x.ema21) /\ Ge(x.rsi, Float(RsiOverbought * Milli))
            /\ Ge(x.price, x.bb_high)
    THEN [signal |-> SignalSell,
          stop_loss |-> MulLit(x.price, SellStopPermille),
          take_profit |-> MulLit(x.price, SellTargetPermille),
          tags |-> SellTags]
    ELSE [signal |-> SignalHold, stop_loss |-> None, take_profit |-> None, tags |-> <<>>]

Setup(x) ==
    IF Gt(x.ema9, x.ema21) /\ Lt(x.rsi, Float(RsiOversold * Milli)) /\ Le(x.price, x.bb_low)
    THEN [signal |-> SignalBuy,
          stop_loss |-> MulLit(x.price, BuyStopPermille),
          take_profit |-> MulLit(x.price, BuyTargetPermille),
          tags |-> BuyTags]
    ELSE IF Lt(x.ema9, x.ema21) /\ Gt(x.rsi, Float(RsiOverbought * Milli))
            /\ Ge(x.price, x.bb_high)
    THEN [signal |-> SignalSell,
          stop_loss |-> MulLit(x.price, SellStopPermille),
          take_profit |-> MulLit(x.price, SellTargetPermille),
          tags |-> SellTags]
    ELSE [signal |-> SignalHold, stop_loss |-> None, take_profit |-> None, tags |-> <<>>]

\* the locals of analyze_stock when it reaches its last test
Decide(df) ==
    LET x == Scalars(df)
        setup == Setup(x)
    IN [signal |-> setup.signal,
        entry |-> x.price,
        stop_loss |-> setup.stop_loss,
        take_profit |-> setup.take_profit,
        confluence |-> CrossTags(x) \o FibTags(x.price, get_fib_levels(df)) \o setup.tags]

\* a call that returned before line 150 has none of the five locals: the
\* signal is not bound, there is no entry, no stop, no target and no tag
NoDecision ==
    [signal |-> "unbound", entry |-> None, stop_loss |-> None, take_profit |-> None,
     confluence |-> <<>>]

\* the locals when .iloc[-2] raises: signal, entry = price, stop_loss,
\* take_profit and confluence are set, nothing is appended yet
AtCross(df) ==
    [signal |-> SignalHold, entry |-> Scalars(df).price, stop_loss |-> None,
     take_profit |-> None, confluence |-> <<>>]

\* the locals when the first Fibonacci test raises: the cross is appended
AtFib(df) == [AtCross(df) EXCEPT !.confluence = CrossTags(Scalars(df))]

\* where the call on this fetch leaves analyze_stock
Exit(fetched) ==
    IF fetched.exc # NoExc THEN "fetch_error"
    ELSE IF fetched.df.nbars = 0 THEN "empty"
    ELSE IF fetched.df.nclose = 0 THEN "close_empty"
    \* .iloc[-1] of the try block: an IndexError only on an empty column
    ELSE IF fetched.df.nbars < 1 THEN "not_enough"
    \* .iloc[-2], outside the try block
    ELSE IF fetched.df.nbars < 2 THEN "IndexError"
    \* if fib_levels: ... / price
    ELSE IF get_fib_levels(fetched.df) # None /\ NearRaises(fetched.df.price)
    THEN "ZeroDivisionError"
    ELSE "decided"

Locals(fetched) ==
    LET exit == Exit(fetched)
    IN CASE exit = "decided" -> Decide(fetched.df)
         [] exit = "IndexError" -> AtCross(fetched.df)
         [] exit = "ZeroDivisionError" -> AtFib(fetched.df)
         [] OTHER -> NoDecision

\* if not confluence
Suppressed(ev) == ev.confluence = <<>>

analyze_stock(symbol, timeframe, fetched) ==
    LET exit == Exit(fetched)
        ev == Locals(fetched)
    IN CASE exit = "fetch_error" -> Return(None, MsgFetchError(timeframe, fetched.exc))
         [] exit = "empty" -> Return(None, MsgNoData)
         [] exit = "close_empty" -> Return(None, MsgCloseEmpty(symbol))
         [] exit = "not_enough" -> Return(None, MsgNotEnough)
         [] exit = "IndexError" -> Raise("IndexError")
         [] exit = "ZeroDivisionError" -> Raise("ZeroDivisionError")
         [] exit = "decided" ->
              IF Suppressed(ev) THEN Return(None, MsgNoSignal)
              ELSE Return(fetched.df.price, MsgPlan(symbol, timeframe, fetched.df.price, ev))

-----------------------------------------------------------------------------
(* State *)

VARIABLES
    \* one call of is_market_open
    gpc, gsym, gutc, gopen,
    \* one call of analyze_stock
    apc, ain, aev, aret,
    \* the bot: the task the event loop is running ("none": all suspended),
    \* the stock_alert loop (its position, the index of the instrument it is
    \* at, the fetch it holds, what it did in the current tick) and the plan
    \* commands in progress
    running, spc, sidx, sfetched, log, queries

gateVars == <<gpc, gsym, gutc, gopen>>
anaVars == <<apc, ain, aev, aret>>
botVars == <<running, spc, sidx, sfetched, log, queries>>
vars == <<gateVars, anaVars, botVars>>

GateIdle == gpc = "off" /\ gsym = <<>> /\ gutc = [weekday |-> 0, sec |-> 0] /\ gopen = FALSE
AnaIdle == apc = "off" /\ ain = None /\ aev = NoDecision /\ aret = Raise("off")
BotIdle ==
    /\ running = "none" /\ spc = "off" /\ sidx = 0 /\ sfetched = None
    /\ log = <<>> /\ queries = <<>>

-----------------------------------------------------------------------------
(* The inputs: what the market data provider can return *)

\* price of the lowest swing low fed in, in whole units
BasePrice == 100

Units(n) == Float(n * Milli)

\* the last value of a series of n values whose first window-1 values are NaN
LastOf(n, window, values) == IF n >= window THEN values ELSE {NaN}

IndValues == {Units(i) : i \in 1..MaxInd}
RsiValues ==
    {Units(r) : r \in {RsiOversold - 1, RsiOversold, RsiOverbought, RsiOverbought + 1}}
BarCounts == {0, 1, 2, EmaSlowWindow, SmaSlowWindow - 1, SmaSlowWindow, SmaSlowWindow + 1}
ExcTexts == {"ConnectionError('timed out')"}

EmptyFrame ==
    [nbars |-> 0, nclose |-> 0, aligned |-> FALSE, price |-> NaN,
     swing_high |-> NaN, swing_low |-> NaN,
     ema9 |-> NaN, ema21 |-> NaN, rsi |-> NaN, bb_low |-> NaN, bb_high |-> NaN,
     sma50 |-> NaN, sma200 |-> NaN, sma50_prev |-> NaN, sma200_prev |-> NaN]

\* rows whose Close is NaN throughout
NanFrame(n) == [EmptyFrame EXCEPT !.nbars = n]

\* a frame of n >= 1 rows with no NaN in it: low <= price <= high over the
\* trailing window, bb_low <= bb_high, and every series NaN before its window
IsFrame(df) ==
    /\ df.nbars >= 1 /\ df.nclose = df.nbars
    /\ df.swing_low.v <= df.price.v /\ df.price.v <= df.swing_high.v
    /\ IsNum(df.bb_low) <=> IsNum(df.bb_high)
    /\ IsNum(df.bb_low) => df.bb_low.v <= df.bb_high.v

\* n rows, the last Close at BasePrice + off, the swing from BasePrice to
\* BasePrice + swing, the Bollinger bands bbl and bbh units from the price
MkFrame(n, al, off, swing, bbl, bbh, e9, e21, r, s50, s200, s50p, s200p) ==
    [nbars |-> n, nclose |-> n, aligned |-> al,
     price |-> Units(BasePrice + off),
     swing_high |-> Units(BasePrice + swing),
     swing_low |-> Units(BasePrice),
     ema9 |-> e9, ema21 |-> e21, rsi |-> r,
     bb_low |-> IF n >= BbWindow THEN Units(BasePrice + off + bbl) ELSE NaN,
     bb_high |-> IF n >= BbWindow THEN Units(BasePrice + off + bbh) ELSE NaN,
     sma50 |-> s50, sma200 |-> s200, sma50_prev |-> s50p, sma200_prev |-> s200p]

\* the frame with High and Low NaN throughout the trailing window: max()
\* and min() skip NaN and are NaN when nothing is left
NoSwing(df) == [df EXCEPT !.swing_high = NaN, !.swing_low = NaN]

\* the frame with a last Close of 0.0, the low of a swing of one unit
ZeroClose(df) ==
    [df EXCEPT !.price = Units(0), !.swing_low = Units(0), !.swing_high = Units(1),
               !.bb_low = IF IsNum(@) THEN Units(0) ELSE @,
               !.bb_high = IF IsNum(@) THEN Units(0) ELSE @]

\* the frame with a last Close of v thousandths, flat over the trailing
\* window, the Bollinger bands at the price
FractionClose(df, v) ==
    [df EXCEPT !.price = Float(v), !.swing_low = Float(v), !.swing_high = Float(v),
               !.bb_low = Float(v), !.bb_high = Float(v)]

\* last closes that are no whole number of units: 0.125, 0.25, 1.005, 100.125
FractionPrices == {125, 250, 1005, 100125}

\* SmaSlowWindow + 1 rows with the PRO-BUY setup, and with the PRO-SELL
\* setup, at each of the fraction prices
FractionFrames ==
    LET buy == MkFrame(SmaSlowWindow + 1, TRUE, 0, 0, 0, 0, Units(2), Units(1),
                       Units(RsiOversold - 1), Units(1), Units(1), Units(1), Units(1))
        sell == MkFrame(SmaSlowWindow + 1, TRUE, 0, 0, 0, 0, Units(1), Units(2),
                        Units(RsiOverbought + 1), Units(1), Units(1), Units(1), Units(1))
    IN {FractionClose(df, v) : df \in {buy, sell}, v \in FractionPrices}

\* two rows, and a golden cross on the last of SmaSlowWindow + 1 rows
OddFrames ==
    LET two == MkFrame(2, FALSE, 0, 1, 0, 0, NaN, NaN, NaN, NaN, NaN, NaN, NaN)
        cross == MkFrame(SmaSlowWindow + 1, TRUE, 0, 1, 0, 0, Units(1), Units(1),
                         Units(RsiOversold), Units(MaxInd), Units(1), Units(1),
                         Units(MaxInd))
        one == MkFrame(1, FALSE, 0, 1, 0, 0, NaN, NaN, NaN, NaN, NaN, NaN, NaN)
    IN {NoSwing(two), NoSwing(cross), ZeroClose(one), ZeroClose(two), ZeroClose(cross)}

FetchOk(df) == [exc |-> NoExc, df |-> df]
FetchRaises(e) == [exc |-> e, df |-> EmptyFrame]

-----------------------------------------------------------------------------
(* SpecGate: one call of is_market_open on any symbol at any instant *)

GateSymbols ==
    {SymNS, SymSOL, <<".", "N", "S">>, <<"N", "S">>, <<"A", ".", "N", "S", "X">>,
     <<"A", ".", "n", "s">>}
GateSeconds ==
    LET open == TimeOf(9, 15) - IstOffset
        close == TimeOf(15, 30) - IstOffset
        midnight == DaySeconds - IstOffset
    IN {0, open - 1, open, open + 1, close - 1, close, close + 1,
        midnight - 1, midnight, DaySeconds - 1}

GateInit ==
    /\ gpc = "call"
    /\ gsym \in GateSymbols
    /\ gutc \in [weekday : 0..6, sec : GateSeconds]
    /\ gopen = FALSE
    /\ AnaIdle /\ BotIdle

GateCall ==
    /\ gpc = "call"
    /\ gopen' = is_market_open(gsym, gutc)
    /\ gpc' = "done"
    /\ UNCHANGED <<gsym, gutc, anaVars, botVars>>

SpecGate == GateInit /\ [][GateCall]_vars

-----------------------------------------------------------------------------
(* SpecAnalyze: one call of analyze_stock on any fetch *)

AnalyzeInit ==
    /\ apc = "call"
    /\ aev = NoDecision
    /\ aret = Raise("pending")
    /\ GateIdle /\ BotIdle
    /\ \E fetched \in {FetchRaises(e) : e \in ExcTexts} \cup {FetchOk(EmptyFrame)}
                       \cup {FetchOk(NanFrame(n)) : n \in BarCounts \ {0}}
                       \cup {FetchOk(df) : df \in OddFrames \cup FractionFrames} :
          ain = [symbol |-> SymSOL, timeframe |-> "5m", fetched |-> fetched]

AnalyzeInitFrame ==
    /\ apc = "call"
    /\ aev = NoDecision
    /\ aret = Raise("pending")
    /\ GateIdle /\ BotIdle
    /\ \E n \in BarCounts \ {0}, al \in BOOLEAN, swing \in 0..MaxSwing :
       \E off \in 0..swing, bbl \in -1..1 :
       \E bbh \in bbl..1 :
       \E e9 \in LastOf(n, EmaFastWindow, IF al THEN IndValues ELSE {Units(MaxInd)}),
          e21 \in LastOf(n, EmaSlowWindow, IF al THEN IndValues ELSE {Units(1)}),
          r \in LastOf(n, RsiWindow, IF al THEN RsiValues ELSE {Units(RsiOversold - 1)}),
          s50 \in LastOf(n, SmaFastWindow, IndValues),
          s200 \in LastOf(n, SmaSlowWindow, IndValues),
          s50p \in LastOf(n - 1, SmaFastWindow, IndValues),
          s200p \in LastOf(n - 1, SmaSlowWindow, IndValues) :
          LET df == MkFrame(n, al, off, swing, bbl, bbh, e9, e21, r, s50, s200, s50p, s200p)
          IN /\ n < BbWindow => bbl = 0 /\ bbh = 0
             /\ IsFrame(df)
             /\ ain = [symbol |-> SymSOL, timeframe |-> "5m", fetched |-> FetchOk(df)]

AnalyzeCall ==
    /\ apc = "call"
    /\ aret' = analyze_stock(ain.symbol, ain.timeframe, ain.fetched)
    /\ aev' = Locals(ain.fetched)
    /\ apc' = "done"
    /\ UNCHANGED <<ain, gateVars, botVars>>

SpecAnalyze == (AnalyzeInit \/ AnalyzeInitFrame) /\ [][AnalyzeCall]_vars

-----------------------------------------------------------------------------
(* Spec: the bot.  One event loop runs the stock_alert task and the plan    *)
(* commands; a task keeps the loop until it awaits.                         *)

\* plan commands that can be in progress at once
NumQueries == 1

NoTask == <<"none", 0>>
SchedTask == <<"stock_alert", 0>>
PlanTask(q) == <<"plan", q>>

\* the fetch awaited as well
Suspends_Fetch(call) == call \in {"channel.send", "ctx.send", "yf.download"}

\* the calls at which a task hands the loop back: the awaits.  yf.download
\* is a plain blocking call.
Suspends(call) == call \in {"channel.send", "ctx.send"}

\* the calls of stock_alert's loop body made inside its try block
InTry(call) == call \in {"analyze_stock", "channel.send"}

AfterCall(task, call) == IF Suspends(call) THEN NoTask ELSE task
CanRun(task) == running = task \/ running = NoTask

\* what the provider returns in the bot's runs: an exception, no rows, one
\* row, a quiet market, a Fibonacci touch on two rows, a PRO-BUY setup
QuietFrame ==
    MkFrame(SmaSlowWindow + 1, TRUE, 0, MaxSwing, 0 - 1, 1, Units(1), Units(1),
            Units(RsiOversold), Units(1), Units(1), Units(1), Units(1))
OneRowFrame == MkFrame(1, FALSE, 0, 1, 0, 0, NaN, NaN, NaN, NaN, NaN, NaN, NaN)
TouchFrame == MkFrame(2, FALSE, 1, 1, 0, 0, NaN, NaN, NaN, NaN, NaN, NaN, NaN)
BuyFrame ==
    MkFrame(SmaSlowWindow + 1, TRUE, 0, MaxSwing, 0, 1, Units(MaxInd), Units(1),
            Units(RsiOversold - 1), Units(1), Units(1), Units(1), Units(1))
BotFetches ==
    {FetchRaises(e) : e \in ExcTexts}
      \cup {FetchOk(df) : df \in {EmptyFrame, OneRowFrame, QuietFrame, TouchFrame, BuyFrame}}

\* Monday and Saturday, 09:15 in Kolkata
BotInstants == [weekday : {0, Saturday}, sec : {TimeOf(9, 15) - IstOffset}]

QuerySymbols == {SymNS, SymSOL}

Embed(title, symbol, description) ==
    [t |-> "embed", title |-> title, symbol |-> symbol, description |-> description]
MsgPlanNoSignal(symbol, timeframe) ==
    [t |-> "str", text |-> "No strong signal for {symbol} on {timeframe} at the moment.",
     symbol |-> symbol, timeframe |-> timeframe]
MsgPlanError(symbol) == [t |-> "str", text |-> "Error analyzing {symbol}", symbol |-> symbol]

Uncalled == Raise("uncalled")

\* what stock_alert did for one instrument of the current tick
NewEntry(symbol) ==
    [symbol |-> symbol, gate |-> "unread", channel |-> "unread", pipeline |-> FALSE,
     ret |-> Uncalled, send |-> "none", embed |-> None, caught |-> NoExc,
     escaped |-> NoExc, logged |-> "", done |-> FALSE]

QIdle ==
    [pc |-> "idle", symbol |-> <<>>, timeframe |-> "", fetched |-> None, ret |-> Uncalled,
     out |-> None, received |-> <<>>, caught |-> NoExc, propagated |-> NoExc]

\* if msg is not None
HasMessage(ret) == ret.msg # None

\* the head of the loop body without the `continue` of a closed market
Visit_NoSkip(config, utc, fault, found) ==
    LET e == NewEntry(config.symbol)
    IN IF fault = "gate"
       THEN [entry |-> [e EXCEPT !.gate = "raised", !.escaped = "GateError"],
             next |-> "raise"]
       ELSE IF fault = "lookup"
       THEN [entry |-> [e EXCEPT !.gate = IF is_market_open(config.symbol, utc)
                                          THEN "open" ELSE "closed",
                                 !.channel = "raised", !.escaped = "LookupError"],
             next |-> "raise"]
       ELSE IF ~found
       THEN [entry |-> [e EXCEPT !.gate = IF is_market_open(config.symbol, utc)
                                          THEN "open" ELSE "closed",
                                 !.channel = "missing",
                                 !.logged = "Channel not found", !.done = TRUE],
             next |-> "continue"]
       ELSE [entry |-> [e EXCEPT !.gate = IF is_market_open(config.symbol, utc)
                                          THEN "open" ELSE "closed",
                                 !.channel = "found"],
             next |-> "try"]

\* the head of the loop body: the gate and the destination lookup
Visit(config, utc, fault, found) ==
    LET e == NewEntry(config.symbol)
    IN IF fault = "gate"
       THEN [entry |-> [e EXCEPT !.gate = "raised", !.escaped = "GateError"],
             next |-> "raise"]
       ELSE IF ~is_market_open(config.symbol, utc)
       THEN [entry |-> [e EXCEPT !.gate = "closed", !.logged = "Market is closed",
                                 !.done = TRUE],
             next |-> "continue"]
       ELSE IF fault = "lookup"
       THEN [entry |-> [e EXCEPT !.gate = "open", !.channel = "raised",
                                 !.escaped = "LookupError"],
             next |-> "raise"]
       ELSE IF ~found
       THEN [entry |-> [e EXCEPT !.gate = "open", !.channel = "missing",
                                 !.logged = "Channel not found", !.done = TRUE],
             next |-> "continue"]
       ELSE [entry |-> [e EXCEPT !.gate = "open", !.channel = "found"], next |-> "try"]

\* the loop moves to the next instrument, or stock_alert returns
NextInstrument ==
    IF sidx < Len(STOCK_CHANNELS)
    THEN spc' = "visit" /\ sidx' = sidx + 1 /\ running' = SchedTask
    ELSE spc' = "sleep" /\ sidx' = 0 /\ running' = NoTask

\* an exception leaves stock_alert: tasks.loop stops the loop for good
LoopFails == spc' = "failed" /\ sidx' = sidx /\ running' = NoTask

\* an exception of `call` in the loop body
SchedRaises(lg, call, exc) ==
    IF InTry(call)
    THEN /\ log' = [lg EXCEPT ![sidx].caught = exc, ![sidx].logged = "Error in stock_alert",
                              ![sidx].done = TRUE]
         /\ NextInstrument
    ELSE /\ log' = [lg EXCEPT ![sidx].escaped = exc]
         /\ LoopFails

BotInit ==
    /\ running = NoTask
    /\ spc = "not_started"
    /\ sidx = 0
    /\ sfetched = None
    /\ log = <<>>
    /\ queries = [q \in 1..NumQueries |-> QIdle]
    /\ GateIdle /\ AnaIdle

\* on_ready: stock_alert.start()
OnReady ==
    /\ spc = "not_started" /\ running = NoTask
    /\ spc' = "sleep"
    /\ UNCHANGED <<running, sidx, sfetched, log, queries, gateVars, anaVars>>

\* the 5-minute timer fires: stock_alert starts over the configuration
TickStart ==
    /\ spc = "sleep" /\ running = NoTask
    /\ spc' = "visit" /\ sidx' = 1 /\ running' = SchedTask
    /\ log' = <<>>
    /\ UNCHANGED <<sfetched, queries, gateVars, anaVars>>

SchedVisit ==
    /\ spc = "visit" /\ running = SchedTask
    /\ \E utc \in BotInstants, fault \in {"none", "gate", "lookup"}, found \in BOOLEAN :
          LET v == Visit(STOCK_CHANNELS[sidx], utc, fault, found)
          IN /\ log' = Append(log, v.entry)
             /\ IF v.next = "raise" THEN LoopFails
                ELSE IF v.next = "continue" THEN NextInstrument
                ELSE spc' = "fetch" /\ sidx' = sidx /\ running' = SchedTask
    /\ UNCHANGED <<sfetched, queries, gateVars, anaVars>>

\* analyze_stock is entered: yf.download(...)
SchedFetch ==
    /\ spc = "fetch" /\ running = SchedTask
    /\ \E fetched \in BotFetches : sfetched' = fetched
    /\ log' = [log EXCEPT ![sidx].pipeline = TRUE]
    /\ spc' = "analyze"
    /\ running' = AfterCall(SchedTask, "yf.download")
    /\ UNCHANGED <<sidx, queries, gateVars, anaVars>>

\* the rest of analyze_stock, and the test of its result
SchedAnalyze ==
    /\ spc = "analyze" /\ CanRun(SchedTask)
    /\ LET c == STOCK_CHANNELS[sidx]
           ret == analyze_stock(c.symbol, c.timeframe, sfetched)
       IN IF ret.exc # NoExc
          THEN /\ SchedRaises([log EXCEPT ![sidx].ret = ret], "analyze_stock", ret.exc)
          ELSE IF HasMessage(ret)
          THEN /\ log' = [log EXCEPT ![sidx].ret = ret, ![sidx].send = "pending",
                                     ![sidx].embed = Embed("Trading Alert", c.symbol, ret.msg)]
               /\ spc' = "send" /\ sidx' = sidx
               /\ running' = AfterCall(SchedTask, "channel.send")
          ELSE /\ log' = [log EXCEPT ![sidx].ret = ret, ![sidx].logged = "No strong signal",
                                     ![sidx].done = TRUE]
               /\ NextInstrument
    /\ sfetched' = None
    /\ UNCHANGED <<queries, gateVars, anaVars>>

\* await channel.send(embed=embed) completes, or raises
SchedSendDone ==
    /\ spc = "send" /\ CanRun(SchedTask)
    /\ \E ok \in BOOLEAN :
          IF ok
          THEN /\ log' = [log EXCEPT ![sidx].send = "ok", ![sidx].logged = "Sent trade plan",
                                     ![sidx].done = TRUE]
               /\ NextInstrument
          ELSE /\ SchedRaises([log EXCEPT ![sidx].send = "raised"], "channel.send", "SendError")
    /\ UNCHANGED <<sfetched, queries, gateVars, anaVars>>

\* a user sends "!plan <symbol>": the command handler starts
PlanInvoke(q) ==
    /\ queries[q].pc = "idle" /\ running = NoTask
    /\ \E symbol \in QuerySymbols :
          queries' = [queries EXCEPT ![q] =
                        [QIdle EXCEPT !.pc = "fetch", !.symbol = symbol, !.timeframe = "1d"]]
    /\ running' = PlanTask(q)
    /\ UNCHANGED <<spc, sidx, sfetched, log, gateVars, anaVars>>

\* analyze_stock is entered: yf.download(...)
PlanFetch(q) ==
    /\ queries[q].pc = "fetch" /\ running = PlanTask(q)
    /\ \E fetched \in BotFetches :
          queries' = [queries EXCEPT ![q].fetched = fetched, ![q].pc = "analyze"]
    /\ running' = AfterCall(PlanTask(q), "yf.download")
    /\ UNCHANGED <<spc, sidx, sfetched, log, gateVars, anaVars>>

\* the rest of analyze_stock, and the test of its result
PlanAnalyze(q) ==
    /\ queries[q].pc = "analyze" /\ CanRun(PlanTask(q))
    /\ LET me == queries[q]
           ret == analyze_stock(me.symbol, me.timeframe, me.fetched)
       IN IF ret.exc # NoExc
          THEN queries' = [queries EXCEPT ![q].fetched = None, ![q].ret = ret,
                                          ![q].caught = ret.exc,
                                          ![q].out = MsgPlanError(me.symbol),
                                          ![q].pc = "send_error"]
          ELSE IF HasMessage(ret)
          THEN queries' = [queries EXCEPT ![q].fetched = None, ![q].ret = ret,
                                          ![q].out = Embed("Trade Plan", me.symbol, ret.msg),
                                          ![q].pc = "send"]
          ELSE queries' = [queries EXCEPT ![q].fetched = None, ![q].ret = ret,
                                          ![q].out = MsgPlanNoSignal(me.symbol, me.timeframe),
                                          ![q].pc = "send"]
    /\ running' = AfterCall(PlanTask(q), "ctx.send")
    /\ UNCHANGED <<spc, sidx, sfetched, log, gateVars, anaVars>>

\* await ctx.send(...) of the try block completes, or raises into the handler
PlanSendDone(q) ==
    /\ queries[q].pc = "send" /\ CanRun(PlanTask(q))
    /\ \E ok \in BOOLEAN :
          IF ok
          THEN /\ queries' = [queries EXCEPT ![q].received = Append(@, queries[q].out),
                                             ![q].out = None, ![q].pc = "done"]
               /\ running' = NoTask
          ELSE /\ queries' = [queries EXCEPT ![q].caught = "SendError",
                                             ![q].out = MsgPlanError(queries[q].symbol),
                                             ![q].pc = "send_error"]
               /\ running' = AfterCall(PlanTask(q), "ctx.send")
    /\ UNCHANGED <<spc, sidx, sfetched, log, gateVars, anaVars>>

\* await ctx.send(...) of the except block completes, or raises out of plan
PlanErrorSendDone(q) ==
    /\ queries[q].pc = "send_error" /\ CanRun(PlanTask(q))
    /\ \E ok \in BOOLEAN :
          IF ok
          THEN queries' = [queries EXCEPT ![q].received = Append(@, queries[q].out),
                                          ![q].out = None, ![q].pc = "done"]
          ELSE queries' = [queries EXCEPT ![q].propagated = "SendError",
                                          ![q].out = None, ![q].pc = "done"]
    /\ running' = NoTask
    /\ UNCHANGED <<spc, sidx, sfetched, log, gateVars, anaVars>>

\* the command is over
PlanReturn(q) ==
    /\ queries[q].pc = "done" /\ running = NoTask
    /\ queries' = [queries EXCEPT ![q] = QIdle]
    /\ UNCHANGED <<running, spc, sidx, sfetched, log, gateVars, anaVars>>

Next ==
    \/ OnReady
    \/ TickStart
    \/ SchedVisit
    \/ SchedFetch
    \/ SchedAnalyze
    \/ SchedSendDone
    \/ \E q \in 1..NumQueries :
          \/ PlanInvoke(q)
          \/ PlanFetch(q)
          \/ PlanAnalyze(q)
          \/ PlanSendDone(q)
          \/ PlanErrorSendDone(q)
          \/ PlanReturn(q)

Spec == BotInit /\ [][Next]_vars

-----------------------------------------------------------------------------
(* Properties *)

Range(seq) == {seq[i] : i \in DOMAIN seq}

\* analyze_stock returned a trade plan
IsPlan(ret) == ret.exc = NoExc /\ ret.price # None

\* the frame and the scalars of the call of SpecAnalyze
TheFrame == ain.fetched.df
TheScalars == Scalars(TheFrame)
Decided == apc = "done" /\ Exit(ain.fetched) = "decided"

\* the guards of the two setups, on numbers only
BuyGuard(x) ==
    /\ IsNum(x.ema9) /\ IsNum(x.ema21) /\ IsNum(x.rsi) /\ IsNum(x.bb_low)
    /\ x.ema9.v > x.ema21.v /\ x.rsi.v < 35 * Milli /\ x.price.v <= x.bb_low.v
SellGuard(x) ==
    /\ IsNum(x.ema9) /\ IsNum(x.ema21) /\ IsNum(x.rsi) /\ IsNum(x.bb_high)
    /\ x.ema9.v < x.ema21.v /\ x.rsi.v > 65 * Milli /\ x.price.v >= x.bb_high.v

\* C8: is_market_open is true of every symbol that does not end in ".NS", at
\* every instant; of a symbol that ends in ".NS" it is true iff, on the clock
\* of Asia/Kolkata, the day is Monday to Friday and the time is from 09:15:00
\* to 15:30:00, both included - so never on a Saturday or a Sunday.
C8_GateRule ==
    gpc = "done" =>
        LET suffixed == gsym \in {SymNS, <<".", "N", "S">>}
            t == gutc.weekday * 86400 + gutc.sec + 19800
            day == (t \div 86400) % 7
            tod == t % 86400
            hours == tod >= 9 * 3600 + 15 * 60 /\ tod <= 15 * 3600 + 30 * 60
        IN /\ gopen <=> (~suffixed \/ (day \in 0..4 /\ hours))
           /\ suffixed /\ day \in {5, 6} => ~gopen

\* a suffixed symbol on a Saturday, Kolkata time, within the trading hours
C8_Witness ==
    /\ gpc = "done" /\ gsym = SymNS /\ ~gopen
    /\ gutc.weekday = 5 /\ gutc.sec = 15 * 3600 + 30 * 60 - 19800

\* C2: on every input the decision is PRO-BUY iff ema9 > ema21, rsi < 35 and
\* price <= bb_low, with stop_loss = price * 0.98 and take_profit = price *
\* 1.04; otherwise PRO-SELL iff ema9 < ema21, rsi > 65 and price >= bb_high,
\* with stop_loss = price * 1.02 and take_profit = price * 0.96; otherwise
\* HOLD.  The confluence list never holds buy tags and sell tags together.
C2_SetupRule ==
    Decided =>
        LET x == TheScalars
            tags == Range(aev.confluence)
        IN /\ aev.signal = SignalBuy <=> BuyGuard(x)
           /\ aev.signal = SignalSell <=> (~BuyGuard(x) /\ SellGuard(x))
           /\ aev.signal = SignalHold <=> (~BuyGuard(x) /\ ~SellGuard(x))
           /\ aev.signal = SignalBuy =>
                 /\ aev.stop_loss = MulLit(x.price, 980)
                 /\ aev.stop_loss.micro = x.price.v * 98 * 10
                 /\ aev.take_profit = MulLit(x.price, 1040)
                 /\ aev.take_profit.micro = x.price.v * 104 * 10
           /\ aev.signal = SignalSell =>
                 /\ aev.stop_loss = MulLit(x.price, 1020)
                 /\ aev.stop_loss.micro = x.price.v * 102 * 10
                 /\ aev.take_profit = MulLit(x.price, 960)
                 /\ aev.take_profit.micro = x.price.v * 96 * 10
           /\ Range(BuyTags) \subseteq tags <=> aev.signal = SignalBuy
           /\ Range(SellTags) \subseteq tags <=> aev.signal = SignalSell
           /\ ~(Range(BuyTags) \cap tags # {} /\ Range(SellTags) \cap tags # {})

\* a PRO-BUY decision with its stop and its target
C2_Witness ==
    /\ Decided /\ aev.signal = SignalBuy /\ BuyGuard(TheScalars)
    /\ aev.stop_loss.micro = 98 * BasePrice * 10 * Milli
    /\ aev.take_profit.micro = 104 * BasePrice * 10 * Milli

\* C9: in one evaluation the Golden Cross tag is in the confluence list iff
\* sma50 > sma200 and sma50_prev < sma200_prev, the Death Cross tag iff
\* sma50 < sma200 and sma50_prev > sma200_prev, never both; a cross tag comes
\* before every Fibonacci and setup tag.
C9_CrossRule ==
    apc = "done" =>
        LET x == TheScalars
            c == aev.confluence
            sma == IsNum(x.sma50) /\ IsNum(x.sma200) /\ IsNum(x.sma50_prev)
                     /\ IsNum(x.sma200_prev)
            golden == sma /\ x.sma50.v > x.sma200.v /\ x.sma50_prev.v < x.sma200_prev.v
            death == sma /\ x.sma50.v < x.sma200.v /\ x.sma50_prev.v > x.sma200_prev.v
        IN /\ TagGolden \in Range(c) <=> golden
           /\ TagDeath \in Range(c) <=> death
           /\ ~(TagGolden \in Range(c) /\ TagDeath \in Range(c))
           /\ \A i \in DOMAIN c : c[i] \in {TagGolden, TagDeath} => i = 1

\* a Golden Cross ahead of a Fibonacci tag and the tags of a setup
C9_Witness ==
    /\ apc = "done" /\ Len(aev.confluence) >= 5
    /\ aev.confluence[1] = TagGolden
    /\ aev.confluence[2] \in {FibTag(FibRatios[i].name) : i \in DOMAIN FibRatios}
    /\ aev.confluence[Len(aev.confluence)] \in Range(BuyTags) \cup Range(SellTags)

\* C5: analyze_stock returns a trade plan iff the confluence list built from
\* the cross, the Fibonacci levels and the setup is not empty; with a cross
\* or Fibonacci tag and no PRO-BUY/PRO-SELL setup the plan has signal HOLD,
\* entry equal to the price, and neither stop nor target.
C5_PlanIffConfluence ==
    apc = "done" =>
        /\ IsPlan(aret) <=> aev.confluence # <<>>
        /\ (aev.confluence # <<>> /\ ~BuyGuard(TheScalars)
              /\ ~SellGuard(TheScalars)) =>
              /\ IsPlan(aret)
              /\ aret.price = TheFrame.price
              /\ aev.signal = SignalHold /\ aret.msg.signal = SignalHold
              /\ aev.entry = TheFrame.price /\ aret.msg.entry = aret.msg.price
              /\ aev.stop_loss = None /\ aret.msg.stop_loss = Dash
              /\ aev.take_profit = None /\ aret.msg.take_profit = Dash

\* C4: on fewer than 200 bars analyze_stock returns "no signal" and never
\* raises: no trade plan, whatever the indicators and the Fibonacci levels.
C4_ShortSeriesNoSignal ==
    (apc = "done" /\ ain.fetched.exc = NoExc /\ TheFrame.nbars < 200) =>
        /\ aret.exc = NoExc
        /\ ~IsPlan(aret)


\* the message carries the text of an exception
HasExcText(m) == "e" \in DOMAIN m \/ (m.t = "embed" /\ "e" \in DOMAIN m.description)

\* the pipeline of a plan command failed
PipelineFailed(ret) ==
    \/ ret.exc \notin {NoExc, Uncalled.exc}
    \/ /\ ret.exc = NoExc
       /\ ret.msg.text \in {MsgFetchError("", "").text, MsgNoData.text,
                            MsgCloseEmpty(<<>>).text, MsgNotEnough.text}

\* C1: in a tick, channel.send is called for an instrument only when the
\* pipeline produced a trade plan; on "no signal", on an empty or failed
\* fetch and on insufficient data nothing is delivered.
C1_SendOnlyPlans ==
    \A i \in DOMAIN log : log[i].send # "none" => IsPlan(log[i].ret)

\* C3: an exception raised by any step of the processing of an instrument
\* (gate, destination lookup, fetch, analysis, send) is caught: the later
\* instruments are processed in the same tick and the loop goes on ticking.
C3_ExceptionsIsolated ==
    /\ \A i \in DOMAIN log : log[i].escaped = NoExc
    /\ spc # "failed"
    /\ (spc = "sleep" /\ log # <<>>) => Len(log) = Len(STOCK_CHANNELS)

C7_GenericFailureNotice ==
    \A q \in DOMAIN queries :
        PipelineFailed(queries[q].ret) =>
            /\ queries[q].out # None => ~HasExcText(queries[q].out)
            /\ \A i \in DOMAIN queries[q].received : ~HasExcText(queries[q].received[i])
            /\ queries[q].pc = "done" =>
                  /\ queries[q].propagated = NoExc
                  /\ Len(queries[q].received) = 1

\* the analysis pipelines in progress: the tasks between the fetch and the
\* decision of analyze_stock, with their instrument
InPipeline ==
    (IF spc = "analyze" THEN {<<SchedTask, STOCK_CHANNELS[sidx].symbol>>} ELSE {})
      \cup {<<PlanTask(q), queries[q].symbol>> : q \in {r \in DOMAIN queries :
                                                          queries[r].pc = "analyze"}}

\* C10: however ticks and plan commands interleave on the event loop, no two
\* analysis pipelines for one instrument are in progress at once.
C10_OnePipelinePerInstrument ==
    \A a \in InPipeline, b \in InPipeline : a[2] = b[2] => a = b

\* a plan command in its pipeline for the instrument stock_alert is at,
\* while stock_alert awaits the delivery for that instrument
C10_Witness ==
    /\ spc = "send" /\ log[sidx].send = "pending"
    /\ \E q \in DOMAIN queries :
          /\ queries[q].pc = "analyze"
          /\ queries[q].symbol = STOCK_CHANNELS[sidx].symbol
          /\ running = PlanTask(q)

====
